---------------------------- MODULE Spec2Model ----------------------------
(***************************************************************************)
(* Model of the etcd transaction mini-language parser: the comparison     *)
(* rules (src/src/compare.rs), the operation rules (src/src/operation.rs) *)
(* and the three-section document assembler (src/src/lib.rs).             *)
(*                                                                         *)
(* A byte buffer is a sequence of one-character strings.  A scanner is a  *)
(* pair (data, pos) with pos a 0-based offset into data.  Every rule is   *)
(* an operator from (data, pos) to a record [ok, pos, val]: ok tells      *)
(* whether the rule matched, pos is the cursor after the rule and val is  *)
(* the parsed value.  The only error kind is UnexpectedToken.             *)
(*                                                                         *)
(* The scanner primitives of the parsing library (peek, Until, UntilEnd,  *)
(* GroupKind, Peeker, Acceptor, SeparatedList, Number, DataString,        *)
(* OptionalWhitespaces) are not part of the repository's sources; they    *)
(* are modelled from sections 4.1-4.5 of the specification.               *)
(***************************************************************************)
EXTENDS Integers, Sequences, FiniteSets, TLC

VARIABLES
    parts,      \* how the input buffer was put together (lines, boundaries)
    input,      \* the immutable input buffer
    pos,        \* committed offset of the main scanner
    pc,         \* position of the running rule
    compares,   \* TxnData.compares
    success,    \* TxnData.success
    failure,    \* TxnData.failure
    item,       \* result of a single Compare / Operation rule
    result      \* "Pending", "Ok" or "UnexpectedToken"

vars == <<parts, input, pos, pc, compares, success, failure, item, result>>

-----------------------------------------------------------------------------
(* Bytes and slices *)

LF == "\n"
SP == " "
DQ == "\""

Digits == {"0", "1", "2", "3", "4", "5", "6", "7", "8", "9"}

Alphabetic ==
    {"a", "b", "c", "d", "e", "f", "g", "h", "i", "j", "k", "l", "m",
     "n", "o", "p", "q", "r", "s", "t", "u", "v", "w", "x", "y", "z",
     "A", "B", "C", "D", "E", "F", "G", "H", "I", "J", "K", "L", "M",
     "N", "O", "P", "Q", "R", "S", "T", "U", "V", "W", "X", "Y", "Z"}

\* bytes [from, to) of data, offsets 0-based
Slice(data, from, to) == SubSeq(data, from + 1, to)

\* Scanner::remaining
Remaining(data, p) == Slice(data, p, Len(data))

Contains(s, b) == \E i \in 1..Len(s) : s[i] = b

Min(S) == CHOOSE x \in S : \A y \in S : x <= y

\* result of a rule
Accepted(p, v) == [ok |-> TRUE, pos |-> p, val |-> v]
\* a failed rule: ParseError::UnexpectedToken, cursor left at p
Rejected(p) == [ok |-> FALSE, pos |-> p, val |-> <<>>]

-----------------------------------------------------------------------------
(* Scanner primitives of the parsing library *)

\* match_pattern: data at offset p starts with pattern
MatchPattern(pattern, data, p) ==
    /\ p + Len(pattern) <= Len(data)
    /\ \A i \in 1..Len(pattern) : data[p + i] = pattern[i]

\* recognize: consume exactly the pattern at the cursor
Recognize(pattern, data, p) ==
    IF MatchPattern(pattern, data, p)
    THEN Accepted(p + Len(pattern), pattern)
    ELSE Rejected(p)

\* offset of the first occurrence of pattern at or after p, -1 when none
FindFirst(pattern, data, p) ==
    LET hits == {i \in p..(Len(data) - 1) : MatchPattern(pattern, data, i)}
    IN  IF hits = {} THEN -1 ELSE Min(hits)

\* A peek result: end_slice is the number of bytes from the cursor to the
\* end of the peeked region; start_size and end_size are the sizes of the
\* delimiters that peeked_slice leaves out.
Peeking(es, ss, ez) == [found |-> TRUE, end_slice |-> es, start_size |-> ss, end_size |-> ez]
NotFound == [found |-> FALSE, end_slice |-> 0, start_size |-> 0, end_size |-> 0]

\* Peeking::data
PeekData(data, p, pk) == Slice(data, p, p + pk.end_slice)
\* Peeking::peeked_slice
PeekedSlice(data, p, pk) == Slice(data, p + pk.start_size, p + pk.end_slice - pk.end_size)

\* a region that ends before offset i (i < 0: nothing found)
UntilAt(p, i) == IF i < 0 THEN NotFound ELSE Peeking(i - p, 0, 0)

\* peek(Until::new(pattern)): the region before the first occurrence of the
\* pattern, the pattern itself not included
PeekUntil(pattern, data, p) == UntilAt(p, FindFirst(pattern, data, p))

\* peek(UntilEnd): the rest of the buffer, always found
PeekUntilEnd(data, p) == Peeking(Len(data) - p, 0, 0)

\* a region that ends with the delimiter found at offset i
ThroughAt(p, i, ss, ez) == IF i < 0 THEN NotFound ELSE Peeking(i - p + ez, ss, ez)

\* a token used as a peekable: the region up to and including its first
\* occurrence; peeked_slice leaves the token out
PeekToken(token, data, p) == ThroughAt(p, FindFirst(token, data, p), 0, Len(token))

\* Peeker: the first peekable that is found wins
FirstFound(a, b) == IF a.found THEN a ELSE b

\* Peeker with a token and UntilEnd
PeekerTokenOrEnd(token, data, p) ==
    FirstFound(PeekToken(token, data, p), PeekUntilEnd(data, p))

\* peek(GroupKind): the opening delimiter must be at the cursor; the group
\* ends at the first closing delimiter after it (no nesting, no escapes)
PeekGroup(open, close, data, p) ==
    IF ~MatchPattern(open, data, p) THEN NotFound
    ELSE ThroughAt(p, FindFirst(close, data, p + Len(open)), Len(open), Len(close))

\* bump_by(peeked.end_slice) and hand out peeked_slice(); a peek that found
\* nothing is ParseError::UnexpectedToken
BumpPeeked(data, p, peeked) ==
    IF ~peeked.found THEN Rejected(p)
    ELSE Accepted(p + peeked.end_slice, PeekedSlice(data, p, peeked))

\* Acceptor::try_or: the first rule that matched wins; both ran from the
\* same cursor
TryOr(first, second) == IF first.ok THEN first ELSE second

\* the outcome of an inner rule r seen from the rule started at p: an error
\* is propagated, a match moves the cursor to next
Propagate(p, next, r) == IF ~r.ok THEN Rejected(p) ELSE Accepted(next, r.val)

\* Token::Whitespace
IsWhitespace(b) == b = SP

\* OptionalWhitespaces: skip zero or more whitespace bytes, never fails
OptionalWhitespaces(data, p) ==
    LET stops == {i \in p..(Len(data) - 1) : ~IsWhitespace(data[i + 1])}
    IN  IF stops = {} THEN (IF p > Len(data) THEN p ELSE Len(data)) ELSE Min(stops)

\* length of the run of bytes of class at offset p
RunLength(class, data, p) ==
    LET stops == {i \in p..(Len(data) - 1) : data[i + 1] \notin class}
    IN  IF stops = {} THEN Len(data) - p ELSE Min(stops) - p

\* a run of n bytes at the cursor as a rule result; an empty run is an error
RunOf(data, p, n) == IF n = 0 THEN Rejected(p) ELSE Accepted(p + n, Slice(data, p, p + n))

\* DataString<&str>: a non-empty run of alphabetic bytes
DataString(data, p) == RunOf(data, p, RunLength(Alphabetic, data, p))

\* u64::MAX = 18446744073709551615 as decimal digits
U64MaxDigits == <<"1", "8", "4", "4", "6", "7", "4", "4", "0", "7", "3", "7", "0", "9", "5", "5", "1", "6", "1", "5">>

DigitValue(d) ==
    CASE d = "0" -> 0 [] d = "1" -> 1 [] d = "2" -> 2 [] d = "3" -> 3
      [] d = "4" -> 4 [] d = "5" -> 5 [] d = "6" -> 6 [] d = "7" -> 7
      [] d = "8" -> 8 [] d = "9" -> 9

\* a digit run without its leading zeros (at least one digit is kept)
StripZeros(ds) ==
    LET nz == {i \in 1..Len(ds) : ds[i] # "0"}
    IN  IF nz = {} THEN <<"0">> ELSE SubSeq(ds, Min(nz), Len(ds))

\* a <= b for two digit runs of the same length
DigitsLeq(a, b) ==
    \/ a = b
    \/ \E i \in 1..Len(a) :
          /\ \A j \in 1..(i - 1) : a[j] = b[j]
          /\ DigitValue(a[i]) < DigitValue(b[i])

\* the number fits an unsigned 64-bit integer
CanonicalFits(n) ==
    \/ Len(n) < Len(U64MaxDigits)
    \/ Len(n) = Len(U64MaxDigits) /\ DigitsLeq(n, U64MaxDigits)

FitsU64(ds) == CanonicalFits(StripZeros(ds))

\* Number<u64>: a non-empty run of ASCII digits converted to u64; the value
\* is kept as its canonical decimal digits
\* str::parse::<u64> of a digit run
ParseU64(p, run) ==
    IF ~run.ok \/ ~FitsU64(run.val) THEN Rejected(p)
    ELSE Accepted(run.pos, StripZeros(run.val))

\* Number<u64>::accept
Number(data, p) == ParseU64(p, RunOf(data, p, RunLength(Digits, data, p)))

\* <[u8]>::trim_ascii_end
IsAsciiWhitespace(b) == b \in {SP, LF, "\t", "\r", "\f"}

TrimAsciiEnd(s) ==
    LET keep == {i \in 1..Len(s) : ~IsAsciiWhitespace(s[i])}
    IN  IF keep = {} THEN <<>> ELSE SubSeq(s, 1, CHOOSE i \in keep : \A j \in keep : j <= i)

-----------------------------------------------------------------------------
(* src/src/operation.rs: data literals *)

\* QuotedString::accept
QuotedString(data, p) == BumpPeeked(data, p, PeekGroup(<<DQ>>, <<DQ>>, data, p))

\* UnquotedString::accept: up to the next Token::Whitespace, else up to the
\* end of the scanner's buffer
UnquotedString(data, p) == BumpPeeked(data, p, PeekerTokenOrEnd(<<SP>>, data, p))

\* Data::accept: quoted literal, else unquoted literal, both tried from p
Data(data, p) == TryOr(QuotedString(data, p), UnquotedString(data, p))

-----------------------------------------------------------------------------
(* src/src/compare.rs *)

\* Key::accept, once the parenthesized group has been peeked: the inner
\* slice is parsed as Data by a scanner of its own, the main scanner is
\* bumped over the whole group
KeyOfGroup(data, p, key_slice) ==
    IF ~key_slice.found THEN Rejected(p)
    ELSE Propagate(p, p + key_slice.end_slice, Data(PeekedSlice(data, p, key_slice), 0))

\* Key::accept
Key(data, p) == KeyOfGroup(data, p, PeekGroup(<<"(">>, <<")">>, data, p))

\* OpType::accept with the symbols of GreaterThan and LessThan exchanged.
\* C11 does not hold of it.
OpTypeExchanged(data, p) ==
    IF MatchPattern(<<"=">>, data, p) THEN Accepted(p + 1, "Equal")
    ELSE IF MatchPattern(<<">">>, data, p) THEN Accepted(p + 1, "LessThan")
    ELSE IF MatchPattern(<<"<">>, data, p) THEN Accepted(p + 1, "GreaterThan")
    ELSE Rejected(p)

\* OpType::accept
OpType(data, p) ==
    IF MatchPattern(<<"=">>, data, p) THEN Accepted(p + 1, "Equal")
    ELSE IF MatchPattern(<<">">>, data, p) THEN Accepted(p + 1, "GreaterThan")
    ELSE IF MatchPattern(<<"<">>, data, p) THEN Accepted(p + 1, "LessThan")
    ELSE Rejected(p)

\* peek(Until::new(Token::OpenParen)).data() at p1: the bytes before the
\* first "("
PrefixAt(data, p1, peeked) ==
    IF ~peeked.found THEN Rejected(p1) ELSE Accepted(p1, PeekData(data, p1, peeked))

\* OptionalWhitespaces, then the prefix
PrefixFrom(data, p1) == PrefixAt(data, p1, PeekUntil(<<"(">>, data, p1))

Prefix(data, p) == PrefixFrom(data, OptionalWhitespaces(data, p))

\* the comparison built from its three parts; the cursor is where the
\* value rule left it
Comparison(variant, p0, key, op, value) ==
    IF ~value.ok THEN Rejected(p0)
    ELSE Accepted(value.pos,
             [variant |-> variant, key |-> key.val, op |-> op.val, value |-> value.val])

\* after the operator of a numeric variant: whitespace, Number
NumericValue(variant, data, p0, key, op) ==
    IF ~op.ok THEN Rejected(p0)
    ELSE Comparison(variant, p0, key, op, Number(data, OptionalWhitespaces(data, op.pos)))

\* after the key: whitespace, OpType
NumericOp(variant, data, p0, key) ==
    IF ~key.ok THEN Rejected(p0)
    ELSE NumericValue(variant, data, p0, key, OpType(data, OptionalWhitespaces(data, key.pos)))

\* after the keyword check of a numeric variant: bump by the prefix, Key
NumericTail(variant, data, p0, pre) ==
    NumericOp(variant, data, p0, Key(data, pre.pos + Len(pre.val)))

\* CreateRevision::accept after the prefix was peeked
CreateRevisionOf(data, p, pre) ==
    IF ~pre.ok THEN Rejected(p)
    ELSE IF TrimAsciiEnd(pre.val) # <<"c">> /\ pre.val # TrimAsciiEnd(<<"c", "r", "e", "a", "t", "e">>)
    THEN Rejected(p)
    ELSE NumericTail("CreateRevision", data, p, pre)

\* CreateRevision::accept
CreateRevision(data, p) == CreateRevisionOf(data, p, Prefix(data, p))

\* ModRevision::accept after the prefix was peeked
ModRevisionOf(data, p, pre) ==
    IF ~pre.ok THEN Rejected(p)
    ELSE IF TrimAsciiEnd(pre.val) # <<"m">> /\ pre.val # TrimAsciiEnd(<<"m", "o", "d">>)
    THEN Rejected(p)
    ELSE NumericTail("ModRevision", data, p, pre)

\* ModRevision::accept
ModRevision(data, p) == ModRevisionOf(data, p, Prefix(data, p))

\* peek(UntilEnd).data at p4: the rest of the scanner's buffer; the cursor
\* stays at p4
RestOfBuffer(data, p4) == Accepted(p4, PeekData(data, p4, PeekUntilEnd(data, p4)))

\* after the operator of Value: whitespace, then the rest of the buffer
ValueValue(data, p0, key, op) ==
    IF ~op.ok THEN Rejected(p0)
    ELSE Comparison("Value", p0, key, op, RestOfBuffer(data, OptionalWhitespaces(data, op.pos)))

ValueOp(data, p0, key) ==
    IF ~key.ok THEN Rejected(p0)
    ELSE ValueValue(data, p0, key, OpType(data, OptionalWhitespaces(data, key.pos)))

\* Value::accept after the prefix was peeked
ValueOf(data, p, pre) ==
    IF ~pre.ok THEN Rejected(p)
    ELSE IF TrimAsciiEnd(pre.val) # <<"v", "a", "l">> /\ pre.val # TrimAsciiEnd(<<"v", "a", "l", "u", "e">>)
    THEN Rejected(p)
    ELSE ValueOp(data, p, Key(data, pre.pos + Len(pre.val)))

\* Value::accept
Value(data, p) == ValueOf(data, p, Prefix(data, p))

\* Version::accept after the prefix was peeked
VersionOf(data, p, pre) ==
    IF ~pre.ok THEN Rejected(p)
    ELSE IF TrimAsciiEnd(pre.val) # <<"v", "e", "r">> /\ pre.val # TrimAsciiEnd(<<"v", "e", "r", "s", "i", "o", "n">>)
    THEN Rejected(p)
    ELSE NumericTail("Version", data, p, pre)

\* Version::accept
Version(data, p) == VersionOf(data, p, Prefix(data, p))

\* Lease::accept without its keyword test: any word before the parenthesis
\* is taken for the keyword.  C17 does not hold of it.
LeaseOfAnyWord(data, p, pre) ==
    IF ~pre.ok THEN Rejected(p) ELSE NumericTail("Lease", data, p, pre)

\* Lease::accept after the prefix was peeked
LeaseOf(data, p, pre) ==
    IF ~pre.ok THEN Rejected(p)
    ELSE IF TrimAsciiEnd(pre.val) # <<"l", "e", "a", "s", "e">>
    THEN Rejected(p)
    ELSE NumericTail("Lease", data, p, pre)

\* Lease::accept
Lease(data, p) == LeaseOf(data, p, Prefix(data, p))

\* Compare::accept: ModRevision, CreateRevision, Value, Version, Lease, each
\* tried from p; the first that matches wins
Compare(data, p) ==
    TryOr(ModRevision(data, p),
    TryOr(CreateRevision(data, p),
    TryOr(Value(data, p),
    TryOr(Version(data, p),
    TryOr(Lease(data, p),
          Rejected(p))))))

-----------------------------------------------------------------------------
(* src/src/operation.rs: operations *)

\* the command word must be the keyword; whitespace after it is skipped
CommandIs(word, data, p, command) ==
    IF ~command.ok \/ command.val # word THEN Rejected(p)
    ELSE Accepted(OptionalWhitespaces(data, command.pos), word)

\* the keyword of an operation: whitespace, then an alphabetic word
Command(word, data, p) ==
    CommandIs(word, data, p, DataString(data, OptionalWhitespaces(data, p)))

\* PutData::accept after the value: trailing whitespace is skipped
PutOf(data, p, key, value) ==
    IF ~value.ok THEN Rejected(p)
    ELSE Accepted(OptionalWhitespaces(data, value.pos),
             [variant |-> "Put", key |-> key.val, value |-> value.val])

\* PutData::accept after the key: whitespace, then the value
PutValue(data, p, key) ==
    IF ~key.ok THEN Rejected(p)
    ELSE PutOf(data, p, key, Data(data, OptionalWhitespaces(data, key.pos)))

\* PutData::accept after the keyword: the key
PutKey(data, p, command) ==
    IF ~command.ok THEN Rejected(p) ELSE PutValue(data, p, Data(data, command.pos))

\* PutData::accept
PutData(data, p) == PutKey(data, p, Command(<<"p", "u", "t">>, data, p))

\* the key of DeleteData and GetData was parsed by a scanner of its own; the
\* main scanner at p1 is bumped by what that scanner consumed, then
\* whitespace is skipped
KeyOnLine(variant, data, p, p1, key) ==
    IF ~key.ok THEN Rejected(p)
    ELSE Accepted(OptionalWhitespaces(data, p1 + key.pos),
             [variant |-> variant, key |-> key.val])

\* the key of DeleteData and GetData: Data over the bytes up to the next
\* line-feed, or up to the end
KeyUntilLn(variant, data, p, command) ==
    IF ~command.ok THEN Rejected(p)
    ELSE KeyOnLine(variant, data, p, command.pos,
             Data(PeekedSlice(data, command.pos,
                      PeekerTokenOrEnd(<<LF>>, data, command.pos)), 0))

\* DeleteData::accept
DeleteData(data, p) == KeyUntilLn("Delete", data, p, Command(<<"d", "e", "l">>, data, p))

\* GetData::accept
GetData(data, p) == KeyUntilLn("Get", data, p, Command(<<"g", "e", "t">>, data, p))

\* Operation::accept: Put, Delete, Get, each tried from p
Operation(data, p) ==
    TryOr(PutData(data, p),
    TryOr(DeleteData(data, p),
    TryOr(GetData(data, p),
          Rejected(p))))

-----------------------------------------------------------------------------
(* src/src/lib.rs *)

\* LineFeed::accept
LineFeed(data, p) == Recognize(<<LF>>, data, p)

\* SectionEnd: the blank-line boundary, two consecutive line-feeds
SectionEnd == <<LF, LF>>

\* the item rule of a separated list
Element(kind, data, p) ==
    IF kind = "Compare" THEN Compare(data, p) ELSE Operation(data, p)

\* SeparatedList<u8, V, LineFeed>::accept: item, then separator, repeated.
\* The list ends after an item that reaches the end of the buffer or that
\* is not followed by the separator; a failing item fails the list.
RECURSIVE SeparatedListFrom(_, _, _, _)

\* after the separator was tried
AfterSeparator(kind, data, acc, element, separator) ==
    IF ~separator.ok
    THEN Accepted(element.pos, Append(acc, element.val))
    ELSE SeparatedListFrom(kind, data, separator.pos, Append(acc, element.val))

\* after the item was tried
AfterElement(kind, data, p, acc, element) ==
    IF ~element.ok THEN Rejected(p)
    ELSE IF Remaining(data, element.pos) = <<>>
    THEN Accepted(element.pos, Append(acc, element.val))
    ELSE AfterSeparator(kind, data, acc, element, LineFeed(data, element.pos))

SeparatedListFrom(kind, data, p, acc) ==
    AfterElement(kind, data, p, acc, Element(kind, data, p))

SeparatedList(kind, data) == SeparatedListFrom(kind, data, 0, <<>>)

\* SectionItems with the emptiness test left out: an empty region is handed
\* to the separated list like any other.  C2 does not hold of it.
SectionItemsUnchecked(kind, region) == SeparatedList(kind, region)

\* the items of a section: none for an empty region, else the separated
\* list parsed by a scanner over the region alone
SectionItems(kind, region) ==
    IF region = <<>> THEN Accepted(0, <<>>) ELSE SeparatedList(kind, region)

\* a boundary of which a single line-feed is consumed.  C16 does not hold
\* of it.
OneLineFeed(data, p) ==
    IF MatchPattern(<<LF>>, data, p) THEN Accepted(p + 1, <<>>) ELSE Rejected(p)

\* LineFeed::accept twice
TwoLineFeeds(data, p) ==
    IF MatchPattern(<<LF>>, data, p) /\ MatchPattern(<<LF>>, data, p + 1)
    THEN Accepted(p + 2, <<>>)
    ELSE Rejected(p)

\* the end of a bounded section: the main scanner is at the boundary (bumped
\* over the region when it is not empty) and two line-feeds are consumed
SectionClose(p, items, lfs) ==
    IF ~items.ok \/ ~lfs.ok THEN Rejected(p) ELSE Accepted(lfs.pos, items.val)

\* the failure section: the rest of the buffer
LastSection(kind, data, p) ==
    Propagate(p, p, SectionItems(kind, PeekData(data, p, PeekUntilEnd(data, p))))

\* SectionOf with a missing boundary taken for the end of the input: the
\* rest of the buffer is then the section.  C4 does not hold of it.
SectionOfLenient(kind, data, p, section) ==
    IF ~section.found THEN LastSection(kind, data, p)
    ELSE SectionClose(p, SectionItems(kind, PeekData(data, p, section)),
                      TwoLineFeeds(data, p + section.end_slice))

\* a bounded section once its boundary has been peeked
SectionOf(kind, data, p, section) ==
    IF ~section.found THEN Rejected(p)
    ELSE SectionClose(p, SectionItems(kind, PeekData(data, p, section)),
                      TwoLineFeeds(data, p + section.end_slice))

\* a section that ends at a blank-line boundary (the compare and the success
\* section): locate the boundary, parse the region before it, consume the
\* two line-feeds
BoundedSection(kind, data, p) == SectionOf(kind, data, p, PeekUntil(SectionEnd, data, p))

\* TxnData::accept as a function of the whole buffer; a failure leaves the
\* scanner where its section started (after the leading whitespace for the
\* compare section)
TxnFailure(c, s, f) ==
    IF ~f.ok THEN Rejected(f.pos)
    ELSE Accepted(f.pos, [compares |-> c.val, success |-> s.val, failure |-> f.val])

TxnSuccess(data, c, s) ==
    IF ~s.ok THEN Rejected(s.pos) ELSE TxnFailure(c, s, LastSection("Operation", data, s.pos))

TxnCompare(data, c) ==
    IF ~c.ok THEN Rejected(c.pos) ELSE TxnSuccess(data, c, BoundedSection("Operation", data, c.pos))

TxnData(data) ==
    TxnCompare(data, BoundedSection("Compare", data, OptionalWhitespaces(data, 0)))

-----------------------------------------------------------------------------
(* Inputs *)

\* most lines a document holds, over its three sections together
MaxLines == 2

\* comparison lines that follow the grammar
GoodCompareLines ==
    { <<"m", "(", "k", ")", ">", "0">>, <<"c", "r", "e", "a", "t", "e", "(", "\"", "a", " ", "b", "\"", ")", " ", "=", " ", "1">>, <<"v", "a", "l", "(", "k", ")", "=", "d">> }

\* comparison lines that do not: a trailing byte after the number, and a
\* keyword that is no spelling of any variant
BadCompareLines ==
    { <<"c", "(", "k", ")", "=", "1", "x">>, <<"c", "r", "e", "a", "t", "(", "k", ")", "=", "1">> }

CompareLines == GoodCompareLines \cup BadCompareLines

\* operation lines that follow the grammar
GoodOperationLines ==
    { <<"p", "u", "t", " ", "k", " ", "v">>, <<"p", "u", "t", " ", "\"", "a", " ", "b", "\"", " ", "\"", "c", " ", "d", "\"">>, <<"g", "e", "t", " ", "k">>, <<"d", "e", "l", " ", "\"", "a", " ", "b", "\"">> }

\* operation lines that do not: an unknown keyword, and a trailing word after
\* the key
BadOperationLines ==
    { <<"p", "o", "t", " ", "k">>, <<"g", "e", "t", " ", "k", " ", "x">> }

OperationLines == GoodOperationLines \cup BadOperationLines

\* what may stand between two sections
Boundaries == { <<LF>>, <<LF, LF>>, <<LF, LF, LF>> }

\* what may stand before the compare section
Leads == { <<>>, <<SP>> }

\* the sequences of n elements of S
SeqsOf(S, n) == [1..n -> S]

\* lines joined by single line-feeds
RECURSIVE JoinLines(_)
JoinLines(lines) ==
    IF lines = <<>> THEN <<>>
    ELSE IF Len(lines) = 1 THEN lines[1]
    ELSE lines[1] \o <<LF>> \o JoinLines(Tail(lines))

\* the buffer of a document given by its parts
Render(d) ==
    d.lead \o JoinLines(d.cs) \o d.b1 \o JoinLines(d.ss) \o d.b2 \o JoinLines(d.fs)

LineCounts ==
    { t \in (0..MaxLines) \X (0..MaxLines) \X (0..MaxLines) : t[1] + t[2] + t[3] <= MaxLines }

Documents ==
    UNION { [lead : Leads, cs : SeqsOf(CompareLines, t[1]), b1 : Boundaries,
             ss : SeqsOf(OperationLines, t[2]), b2 : Boundaries,
             fs : SeqsOf(OperationLines, t[3])] : t \in LineCounts }

NoItem == <<>>

-----------------------------------------------------------------------------
(* The document assembler as a state machine *)

Init ==
    /\ parts \in Documents
    /\ input = Render(parts)
    /\ pos = 0
    /\ pc = "ReadCompareSection"
    /\ compares = <<>>
    /\ success = <<>>
    /\ failure = <<>>
    /\ item = NoItem
    /\ result = "Pending"

\* a failure after which the parse starts again from the first byte.  C18
\* does not hold of it.
FailAndRetry(at) ==
    /\ pc' = "ReadCompareSection"
    /\ pos' = 0
    /\ result' = "Pending"
    /\ compares' = <<>>
    /\ success' = <<>>
    /\ failure' = <<>>
    /\ UNCHANGED <<parts, input, item>>

\* Err(ParseError::UnexpectedToken): no document is returned; the main
\* scanner stays at the offset the failed step left it at
Fail(at) ==
    /\ pc' = "Failed"
    /\ pos' = at
    /\ result' = "UnexpectedToken"
    /\ compares' = <<>>
    /\ success' = <<>>
    /\ failure' = <<>>
    /\ UNCHANGED <<parts, input, item>>

\* the compare section was read: its items are kept.  When it failed, the
\* leading whitespace stays consumed: c.pos is the offset after it
CompareSectionRead(c) ==
    IF ~c.ok THEN Fail(c.pos)
    ELSE /\ compares' = c.val
         /\ pos' = c.pos
         /\ pc' = "ReadSuccessSection"
         /\ UNCHANGED <<parts, input, success, failure, item, result>>

\* TxnData::accept, leading whitespace and the compare section
ReadCompareSection ==
    /\ pc = "ReadCompareSection"
    /\ CompareSectionRead(BoundedSection("Compare", input, OptionalWhitespaces(input, pos)))

\* the success section was read
SuccessSectionRead(s) ==
    IF ~s.ok THEN Fail(s.pos)
    ELSE /\ success' = s.val
         /\ pos' = s.pos
         /\ pc' = "ReadFailureSection"
         /\ UNCHANGED <<parts, input, compares, failure, item, result>>

\* TxnData::accept, the success section
ReadSuccessSection ==
    /\ pc = "ReadSuccessSection"
    /\ SuccessSectionRead(BoundedSection("Operation", input, pos))

\* the failure section was read: the document is returned
FailureSectionRead(f) ==
    IF ~f.ok THEN Fail(f.pos)
    ELSE /\ failure' = f.val
         /\ pc' = "Done"
         /\ result' = "Ok"
         /\ UNCHANGED <<parts, input, pos, compares, success, item>>

\* TxnData::accept, the failure section
ReadFailureSection ==
    /\ pc = "ReadFailureSection"
    /\ FailureSectionRead(LastSection("Operation", input, pos))

Next == ReadCompareSection \/ ReadSuccessSection \/ ReadFailureSection

Spec == Init /\ [][Next]_vars

-----------------------------------------------------------------------------
(* A single comparison line given to Compare::accept *)

ShortKeywords == { <<"c">>, <<"m">>, <<"v", "a", "l">>, <<"v", "e", "r">> }

\* the long spelling of a short keyword
LongOf(kw) ==
    CASE kw = <<"c">> -> <<"c", "r", "e", "a", "t", "e">>
      [] kw = <<"m">> -> <<"m", "o", "d">>
      [] kw = <<"v", "a", "l">> -> <<"v", "a", "l", "u", "e">>
      [] kw = <<"v", "e", "r">> -> <<"v", "e", "r", "s", "i", "o", "n">>

LongKeywords == { LongOf(kw) : kw \in ShortKeywords }

\* the nine spellings
Keywords == ShortKeywords \cup LongKeywords \cup { <<"l", "e", "a", "s", "e">> }

\* the spellings of the variants whose right-hand side is a number
NumericKeywords == Keywords \ { <<"v", "a", "l">>, <<"v", "a", "l", "u", "e">> }

\* words that are no spelling of any variant
UnknownKeywords == { <<"c", "r", "e", "a", "t">>, <<"l">>, <<"M", "o", "d">> }

\* right-hand sides that are numbers of 64 bits
GoodNumbers == { <<"1">>, <<"0", "0", "7">>, <<"1", "8", "4", "4", "6", "7", "4", "4", "0", "7", "3", "7", "0", "9", "5", "5", "1", "6", "1", "5">> }

\* the number a good right-hand side denotes, in canonical decimal digits
NumberOf(rhs) == IF rhs = <<"0", "0", "7">> THEN <<"7">> ELSE rhs

\* right-hand sides that are not: one above u64::MAX, empty, a non-digit,
\* a digit followed by a non-digit
BadNumbers == { <<"1", "8", "4", "4", "6", "7", "4", "4", "0", "7", "3", "7", "0", "9", "5", "5", "1", "6", "1", "6">>, <<>>, <<"x">>, <<"1", "x">> }

OperatorBytes == { <<"=">>, <<">">>, <<"<">> }

CompareInputs ==
    [kw  : Keywords \cup UnknownKeywords,
     gap : { <<>>, <<SP>> },
     key : { <<"k">>, <<"\"", "a", " ", "b", "\"">> },
     pad : { <<>>, <<SP>> },
     op  : OperatorBytes \cup { <<"!">> },
     rhs : GoodNumbers \cup BadNumbers]

\* the line of a comparison given by its parts
RenderCompare(d) ==
    d.kw \o d.gap \o <<"(">> \o d.key \o <<")">> \o d.pad \o d.op \o d.pad \o d.rhs

InitCompare ==
    /\ parts \in CompareInputs
    /\ input = RenderCompare(parts)
    /\ pos = 0
    /\ pc = "Compare"
    /\ compares = <<>>
    /\ success = <<>>
    /\ failure = <<>>
    /\ item = NoItem
    /\ result = "Pending"

\* the outcome of a single rule: the item and the cursor, or the error
RuleDone(done, r) ==
    /\ pc' = done
    /\ pos' = r.pos
    /\ item' = IF r.ok THEN r.val ELSE NoItem
    /\ result' = IF r.ok THEN "Ok" ELSE "UnexpectedToken"
    /\ UNCHANGED <<parts, input, compares, success, failure>>

\* Compare::accept on a scanner over the line
CompareAccept ==
    /\ pc = "Compare"
    /\ RuleDone("CompareDone", Compare(input, pos))

SpecCompare == InitCompare /\ [][CompareAccept]_vars

-----------------------------------------------------------------------------
(* A single operation, possibly followed by another line, given to
   Operation::accept *)

\* a data literal as written: quoted or not, and its bytes without quotes
UnquotedLiterals == [quoted : {FALSE}, text : { <<"k">>, <<"v">> }]
QuotedLiterals == [quoted : {TRUE}, text : { <<"a", " ", "b">>, <<"a", "\n", "b">>, <<>> }]
Literals == UnquotedLiterals \cup QuotedLiterals

\* no second literal on the line
NoLiteral == [quoted |-> FALSE, text |-> <<>>]

RenderLiteral(l) == IF l.quoted THEN <<DQ>> \o l.text \o <<DQ>> ELSE l.text

OperationInputs ==
    [cmd   : { <<"p", "u", "t">>, <<"g", "e", "t">>, <<"d", "e", "l">>, <<"p", "o", "t">> },
     key   : Literals,
     value : Literals \cup { NoLiteral },
     rest  : { <<>>, <<"\n", "g", "e", "t", " ", "k">> }]

\* the buffer of an operation given by its parts
RenderOperation(d) ==
    d.cmd \o <<SP>> \o RenderLiteral(d.key)
          \o (IF d.value = NoLiteral THEN <<>> ELSE <<SP>> \o RenderLiteral(d.value))
          \o d.rest

InitOperation ==
    /\ parts \in OperationInputs
    /\ input = RenderOperation(parts)
    /\ pos = 0
    /\ pc = "Operation"
    /\ compares = <<>>
    /\ success = <<>>
    /\ failure = <<>>
    /\ item = NoItem
    /\ result = "Pending"

\* Operation::accept on a scanner over the buffer
OperationAccept ==
    /\ pc = "Operation"
    /\ RuleDone("OperationDone", Operation(input, pos))

SpecOperation == InitOperation /\ [][OperationAccept]_vars

-----------------------------------------------------------------------------
(* Properties of the document parse (specification Spec) *)

\* the parse has ended
Ended == pc \in {"Done", "Failed"}

\* both boundaries of the document are exactly one blank-line boundary
StandardBoundaries == parts.b1 = SectionEnd /\ parts.b2 = SectionEnd

\* every line of the document follows the grammar
WellFormed ==
    /\ \A i \in DOMAIN parts.cs : parts.cs[i] \in GoodCompareLines
    /\ \A i \in DOMAIN parts.ss : parts.ss[i] \in GoodOperationLines
    /\ \A i \in DOMAIN parts.fs : parts.fs[i] \in GoodOperationLines

\* the items are, in order, the parses of the lines
ItemsOfLines(kind, items, lines) ==
    /\ Len(items) = Len(lines)
    /\ \A i \in DOMAIN lines :
          /\ Element(kind, lines[i], 0).ok
          /\ items[i] = Element(kind, lines[i], 0).val

\* C1: in a document that parses, the items of compares, success and
\* failure are the parses of the lines of their section, in source order,
\* none reordered, duplicated or omitted.
C1_SourceOrder ==
    (pc = "Done" /\ StandardBoundaries) =>
        /\ ItemsOfLines("Compare", compares, parts.cs)
        /\ ItemsOfLines("Operation", success, parts.ss)
        /\ ItemsOfLines("Operation", failure, parts.fs)

\* a document with the same non-empty sections and no empty section
Populated(d) ==
    [d EXCEPT !.cs = IF d.cs = <<>> THEN << <<"l", "e", "a", "s", "e", "(", "k", ")", "<", "2">> >> ELSE d.cs,
              !.ss = IF d.ss = <<>> THEN << <<"d", "e", "l", " ", "k">> >> ELSE d.ss,
              !.fs = IF d.fs = <<>> THEN << <<"g", "e", "t", " ", "\"", "a", " ", "b", "\"">> >> ELSE d.fs]

\* the items of a section: empty for an empty section, else what the parse
\* of the populated document gives for it
SameAsPopulated(items, lines, populated) ==
    IF lines = <<>> THEN items = <<>> ELSE items # <<>> /\ items = populated

\* C2: each section may be empty independently of the two others: a
\* well-formed document with both boundaries parses whichever sections are
\* empty, the empty sections give empty sequences and the others give the
\* items they give when no section is empty.
C2_EmptySections ==
    (Ended /\ StandardBoundaries /\ WellFormed) =>
        /\ pc = "Done"
        /\ result = "Ok"
        /\ TxnData(Render(Populated(parts))).ok
        /\ SameAsPopulated(compares, parts.cs, TxnData(Render(Populated(parts))).val.compares)
        /\ SameAsPopulated(success, parts.ss, TxnData(Render(Populated(parts))).val.success)
        /\ SameAsPopulated(failure, parts.fs, TxnData(Render(Populated(parts))).val.failure)

\* C2 witness: a document whose success section alone is empty was parsed
C2_Witness ==
    /\ pc = "Done"
    /\ StandardBoundaries /\ WellFormed
    /\ parts.cs # <<>> /\ parts.ss = <<>> /\ parts.fs # <<>>
    /\ compares # <<>> /\ success = <<>> /\ failure # <<>>

\* some line of the document is malformed
HasMalformedLine ==
    \/ \E i \in DOMAIN parts.cs : parts.cs[i] \in BadCompareLines
    \/ \E i \in DOMAIN parts.ss : parts.ss[i] \in BadOperationLines
    \/ \E i \in DOMAIN parts.fs : parts.fs[i] \in BadOperationLines

\* C3: a malformed line, or trailing bytes on a line, is never skipped: the
\* parse of a document that holds one fails with UnexpectedToken.
C3_MalformedLineFails ==
    (Ended /\ StandardBoundaries /\ HasMalformedLine) =>
        pc = "Failed" /\ result = "UnexpectedToken"

\* the number of whitespace bytes the buffer starts with
LeadingWhitespace(data) ==
    IF \A i \in 1..Len(data) : data[i] = SP THEN Len(data)
    ELSE Min({i \in 1..Len(data) : data[i] # SP}) - 1

\* the buffer holds, after its leading whitespace, two occurrences of two
\* consecutive line-feeds that do not overlap
HasTwoBoundaries(data) ==
    \E i, j \in LeadingWhitespace(data)..(Len(data) - 2) :
        /\ i + 2 <= j
        /\ data[i + 1] = LF /\ data[i + 2] = LF
        /\ data[j + 1] = LF /\ data[j + 2] = LF

\* C4: a document that does not hold both section boundaries is never
\* parsed: the parse fails with UnexpectedToken and gives no document.
C4_BothBoundaries ==
    (Ended /\ ~HasTwoBoundaries(input)) =>
        /\ pc = "Failed"
        /\ result = "UnexpectedToken"
        /\ compares = <<>> /\ success = <<>> /\ failure = <<>>

\* C4 witness: the parse failed on the second boundary, the first one found
\* and consumed
C4_Witness ==
    /\ pc = "Failed"
    /\ ~HasTwoBoundaries(input)
    /\ pos >= LeadingWhitespace(input) + 2

\* C7: the value of a Value comparison is the rest of its own line, never
\* holds a line-feed, and the lines after it are parsed as items of their
\* own.
C7_ValueIsRestOfLine ==
    (pc = "Done" /\ StandardBoundaries /\ WellFormed) =>
        /\ \A i \in DOMAIN compares :
              compares[i].variant = "Value" => ~Contains(compares[i].value, LF)
        /\ (\E i \in DOMAIN parts.cs : parts.cs[i] = <<"v", "a", "l", "(", "k", ")", "=", "d">>)
              => Len(compares) = Len(parts.cs)

-----------------------------------------------------------------------------
(* Properties of the comparison rules (specification SpecCompare) *)

\* the outcome of Compare::accept on a line: whether it matched, and what
Outcome(line) ==
    IF Compare(line, 0).ok THEN <<"Ok", Compare(line, 0).val>>
    ELSE <<"UnexpectedToken", NoItem>>

\* C5: a comparison written with a short keyword and the same comparison
\* written with the long keyword have the same outcome: both fail, or both
\* give the same variant, key, operator and value.
C5_ShortLongEquivalent ==
    (pc = "CompareDone" /\ parts.kw \in ShortKeywords) =>
        <<result, item>> = Outcome(RenderCompare([parts EXCEPT !.kw = LongOf(parts.kw)]))

\* C6: whitespace between the keyword and the opening parenthesis is
\* rejected with UnexpectedToken, for each of the nine spellings.
C6_NoGapBeforeParen ==
    (pc = "CompareDone" /\ parts.kw \in Keywords /\ parts.gap # <<>>) =>
        result = "UnexpectedToken"

\* C10: the right-hand side of a numeric comparison is accepted only when
\* it is a non-empty run of digits of at most 2^64-1, the value is that
\* number, and anything else fails with UnexpectedToken.
C10_NumericRightHandSide ==
    (/\ pc = "CompareDone"
     /\ parts.kw \in NumericKeywords /\ parts.gap = <<>>
     /\ parts.op \in OperatorBytes) =>
        IF parts.rhs \in GoodNumbers
        THEN result = "Ok" /\ item.value = NumberOf(parts.rhs)
        ELSE result = "UnexpectedToken"

-----------------------------------------------------------------------------
(* Properties of the operation rules (specification SpecOperation) *)

\* the line starts with one of the three keywords
KnownCommand == parts.cmd \in { <<"p", "u", "t">>, <<"g", "e", "t">>, <<"d", "e", "l">> }

\* C8: an unquoted literal is the run of bytes up to the next whitespace,
\* line-feed or end of input: the key or value taken from it holds no
\* space and no line-feed, and does not reach into the next line.
C8_UnquotedLiteral ==
    (pc = "OperationDone" /\ KnownCommand /\ result = "Ok") =>
        /\ ~parts.key.quoted =>
              /\ item.key = parts.key.text
              /\ ~Contains(item.key, SP) /\ ~Contains(item.key, LF)
        /\ (item.variant = "Put" /\ ~parts.value.quoted /\ parts.value # NoLiteral) =>
              /\ item.value = parts.value.text
              /\ ~Contains(item.value, SP) /\ ~Contains(item.value, LF)

\* C9: a quoted literal gives exactly the bytes between its two quotes,
\* spaces kept and quotes left out, for the keys and values of Put, Delete
\* and Get.
C9_QuotedLiteral ==
    (pc = "OperationDone" /\ KnownCommand) =>
        /\ parts.key.quoted => result = "Ok" /\ item.key = parts.key.text
        /\ (parts.cmd = <<"p", "u", "t">> /\ parts.key.quoted /\ parts.value.quoted) =>
              result = "Ok" /\ item.value = parts.value.text
-----------------------------------------------------------------------------
(* The operator rule on a scanner at any offset of a short buffer
   (specification SpecOpType) *)

\* longest buffer given to the operator rule
MaxOpLen == 2

\* the bytes of those buffers: the three operators, another symbol, a
\* space, a digit and a letter
OpAlphabet == { "=", ">", "<", "!", SP, "1", "k" }

\* a buffer and a cursor offset in it, the end of the buffer included
OpTypeInputs ==
    UNION { [data : SeqsOf(OpAlphabet, n), at : 0..n] : n \in 0..MaxOpLen }

InitOpType ==
    /\ parts \in OpTypeInputs
    /\ input = parts.data
    /\ pos = parts.at
    /\ pc = "OpType"
    /\ compares = <<>>
    /\ success = <<>>
    /\ failure = <<>>
    /\ item = NoItem
    /\ result = "Pending"

\* OpType::accept on a scanner at offset pos of the buffer
OpTypeAccept ==
    /\ pc = "OpType"
    /\ RuleDone("OpTypeDone", OpType(input, pos))

SpecOpType == InitOpType /\ [][OpTypeAccept]_vars

\* the operator a symbol stands for, as the specification lists them
OperatorOf(b) ==
    CASE b = "=" -> "Equal" [] b = ">" -> "GreaterThan" [] b = "<" -> "LessThan"

\* the byte at the cursor is one of the three operator symbols
AtOperator == parts.at < Len(parts.data) /\ parts.data[parts.at + 1] \in {"=", ">", "<"}

\* C11: the operator rule maps = to Equal, > to GreaterThan and < to
\* LessThan and consumes exactly that byte; at any other byte and at the
\* end of the input it fails with UnexpectedToken, the cursor unmoved.
C11_OperatorMapping ==
    pc = "OpTypeDone" =>
        IF AtOperator
        THEN /\ result = "Ok"
             /\ item = OperatorOf(parts.data[parts.at + 1])
             /\ pos = parts.at + 1
        ELSE /\ result = "UnexpectedToken"
             /\ pos = parts.at

\* C11 witness: a > that is not the first byte of the buffer was read as
\* GreaterThan
C11_Witness ==
    /\ pc = "OpTypeDone"
    /\ parts.at > 0 /\ AtOperator /\ parts.data[parts.at + 1] = ">"
    /\ result = "Ok" /\ item = "GreaterThan" /\ pos = parts.at + 1

-----------------------------------------------------------------------------
(* An operation keyword followed by zero, one or two literals as they are
   written, given to Operation::accept (specification SpecLiterals) *)

\* most literals written after the keyword
MaxLiterals == 2

\* literals as written: unquoted, quoted, and quoted without closing quote
WrittenLiterals == { <<"k">>, <<"\"", "a", " ", "b", "\"">>, <<"\"", "a">> }

LiteralInputs ==
    UNION { [cmd  : { <<"p", "u", "t">>, <<"g", "e", "t">>, <<"d", "e", "l">> },
             lits : SeqsOf(WrittenLiterals, n),
             tail : { <<>>, <<SP>> }] : n \in 0..MaxLiterals }

\* the literals, a space before each
RECURSIVE SpacedLiterals(_)
SpacedLiterals(lits) ==
    IF lits = <<>> THEN <<>> ELSE <<SP>> \o Head(lits) \o SpacedLiterals(Tail(lits))

\* the line: keyword, literals, trailing whitespace
RenderLiterals(d) == d.cmd \o SpacedLiterals(d.lits) \o d.tail

InitLiterals ==
    /\ parts \in LiteralInputs
    /\ input = RenderLiterals(parts)
    /\ pos = 0
    /\ pc = "Operation"
    /\ compares = <<>>
    /\ success = <<>>
    /\ failure = <<>>
    /\ item = NoItem
    /\ result = "Pending"

SpecLiterals == InitLiterals /\ [][OperationAccept]_vars

\* the line lacks a literal its keyword requires
MissingLiteral ==
    IF parts.cmd = <<"p", "u", "t">> THEN Len(parts.lits) < 2 ELSE Len(parts.lits) = 0

\* C12: an operation with a missing literal fails with UnexpectedToken (a
\* Put with fewer than two literals, a Delete or Get with none), and no
\* operation has an empty key or value.
C12_MissingLiteralFails ==
    pc = "OperationDone" =>
        /\ MissingLiteral => result = "UnexpectedToken"
        /\ result = "Ok" =>
              /\ item.key # <<>>
              /\ item.variant = "Put" => item.value # <<>>

\* the first literal of the line opens a quote that nothing closes before
\* the end of the buffer
UnterminatedQuote ==
    /\ Len(parts.lits) >= 1
    /\ parts.lits[1] = <<"\"", "a">>
    /\ \A i \in 2..Len(parts.lits) : parts.lits[i] = <<"k">>

\* comparisons whose parenthesis is not closed
UnclosedComparisons == { <<"c", "(", "k", "=", "1">>, <<"m", "o", "d", "(", "\"", "a", " ", "b", "\"", "<", "1">>, <<"v", "a", "l", "(", "k">>, <<"l", "e", "a", "s", "e", "(">> }

\* C13: an unterminated group fails with UnexpectedToken: a literal that
\* opens a quote that is never closed, and a comparison whose parenthesis is
\* never closed; no key or value is an unquoted literal that holds the
\* quote byte.
C13_UnterminatedGroupFails ==
    pc = "OperationDone" =>
        /\ UnterminatedQuote => result = "UnexpectedToken"
        /\ result = "Ok" =>
              /\ ~Contains(item.key, DQ)
              /\ item.variant = "Put" => ~Contains(item.value, DQ)
        /\ \A line \in UnclosedComparisons : ~Compare(line, 0).ok

-----------------------------------------------------------------------------
(* Properties of the comparison dispatcher (specification SpecCompare) *)

\* the bytes of the line before its first "("
BeforeParen == parts.kw \o parts.gap

\* C14: the comparison dispatcher accepts exactly the nine case-sensitive
\* spellings: when the bytes before the first "(" are not one of them,
\* every variant rule fails and Compare fails with UnexpectedToken.
C14_NineSpellings ==
    (pc = "CompareDone" /\ BeforeParen \notin Keywords) =>
        /\ result = "UnexpectedToken"
        /\ ~ModRevision(input, 0).ok
        /\ ~CreateRevision(input, 0).ok
        /\ ~Value(input, 0).ok
        /\ ~Version(input, 0).ok
        /\ ~Lease(input, 0).ok

-----------------------------------------------------------------------------
(* The ordered-alternative dispatchers Compare::accept, Operation::accept
   and Data::accept: their alternatives *)

\* the alternatives of a dispatcher in their declared order
AlternativeNames(kind) ==
    CASE kind = "Compare" ->
            <<"ModRevision", "CreateRevision", "Value", "Version", "Lease">>
      [] kind = "Operation" -> <<"Put", "Delete", "Get">>
      [] kind = "Data" -> <<"QuotedString", "UnquotedString">>

\* the rule of an alternative run on a scanner at offset p
Alternative(name, data, p) ==
    CASE name = "ModRevision" -> ModRevision(data, p)
      [] name = "CreateRevision" -> CreateRevision(data, p)
      [] name = "Value" -> Value(data, p)
      [] name = "Version" -> Version(data, p)
      [] name = "Lease" -> Lease(data, p)
      [] name = "Put" -> PutData(data, p)
      [] name = "Delete" -> DeleteData(data, p)
      [] name = "Get" -> GetData(data, p)
      [] name = "QuotedString" -> QuotedString(data, p)
      [] name = "UnquotedString" -> UnquotedString(data, p)

-----------------------------------------------------------------------------
(* Properties of the document assembler (specification Spec) *)

\* the offset of the first two consecutive line-feeds at or after from
FirstBlankLine(data, from) ==
    CHOOSE i \in from..Len(data) :
        /\ \/ i = Len(data)
           \/ i + 2 <= Len(data) /\ data[i + 1] = LF /\ data[i + 2] = LF
        /\ \A j \in from..(i - 1) :
              ~(j + 2 <= Len(data) /\ data[j + 1] = LF /\ data[j + 2] = LF)

\* where the compare section and its two line-feeds end
AfterCompareSection == FirstBlankLine(input, LeadingWhitespace(input)) + 2

\* where the success section and its two line-feeds end
AfterSuccessSection == FirstBlankLine(input, AfterCompareSection) + 2

\* the two bytes before offset p are line-feeds
TwoLineFeedsBefore(p) ==
    p >= 2 /\ p <= Len(input) /\ input[p - 1] = LF /\ input[p] = LF

\* where the assembler stands, section after section
SectionsConsumedInOrder ==
    /\ pc = "ReadCompareSection" => pos = 0
    /\ pc = "ReadSuccessSection" =>
          pos = AfterCompareSection /\ TwoLineFeedsBefore(pos)
    /\ pc \in {"ReadFailureSection", "Done"} =>
          /\ pos = AfterSuccessSection /\ TwoLineFeedsBefore(pos)
          /\ TwoLineFeedsBefore(AfterCompareSection)
          /\ AfterCompareSection <= pos - 2
    /\ pc = "Done" =>
          /\ result = "Ok"
          /\ (Remaining(input, pos) = <<>>) = (failure = <<>>)
          /\ failure = SectionItems("Operation", Remaining(input, pos)).val
    /\ pc = "Failed" =>
          result = "UnexpectedToken" /\ compares = <<>> /\ success = <<>> /\ failure = <<>>

\* the steps of the assembler: one state forward, or the failure
ForwardStep ==
    \/ pc = "ReadCompareSection" /\ pc' \in {"ReadSuccessSection", "Failed"}
    \/ pc = "ReadSuccessSection" /\ pc' \in {"ReadFailureSection", "Failed"}
    \/ pc = "ReadFailureSection" /\ pc' \in {"Done", "Failed"}

\* C16: the assembler moves only forward through ReadCompareSection,
\* ReadSuccessSection, ReadFailureSection, Done: the compare section, two
\* line-feeds, the success section and two line-feeds are consumed in that
\* order, also when a section is empty; the failure section is what remains
\* up to the end of the input, no trailing line-feed required; a failure
\* ends the parse and Done is not reached after it.
C16_ForwardOnly == [](SectionsConsumedInOrder) /\ [][ForwardStep]_vars

\* C16 witness: Done was reached over an empty compare section, with a
\* failure section that runs to the end of the input without a line-feed
C16_Witness ==
    /\ pc = "Done"
    /\ parts.cs = <<>> /\ parts.ss # <<>> /\ parts.fs # <<>>
    /\ pos = AfterSuccessSection
    /\ failure # <<>>
    /\ input[Len(input)] # LF

-----------------------------------------------------------------------------
(* Comparison lines given to Compare::accept and operation lines given to
   Operation::accept (specification SpecRules) *)

InitRules == InitCompare \/ InitOperation

NextRules == CompareAccept \/ OperationAccept

SpecRules == InitRules /\ [][NextRules]_vars

\* the orders in which n alternatives can be tried
OrdersOf(n) ==
    { order \in [1..n -> 1..n] : \A i, j \in 1..n : order[i] = order[j] => i = j }

\* what each alternative gives, run from the start of the buffer
Outcomes(names) == [i \in 1..Len(names) |-> Alternative(names[i], input, 0)]

\* a dispatcher that tries the alternatives in the given order, each from
\* the same cursor: the outcome of the first that accepts
RECURSIVE DispatchedIn(_, _)
DispatchedIn(order, outcomes) ==
    IF order = <<>> THEN Rejected(0)
    ELSE IF outcomes[Head(order)].ok THEN outcomes[Head(order)]
    ELSE DispatchedIn(Tail(order), outcomes)

\* the alternatives that accept the buffer from its start
Accepting(names) ==
    { i \in 1..Len(names) : Alternative(names[i], input, 0).ok }

\* at most one alternative accepts, and every order of the alternatives
\* gives the result of the dispatcher rule, which is that of the declared
\* order
OrderIsNoTieBreak(outcomes, dispatched) ==
    /\ Cardinality({ i \in DOMAIN outcomes : outcomes[i].ok }) <= 1
    /\ \A order \in OrdersOf(Len(outcomes)) : DispatchedIn(order, outcomes) = dispatched

\* C17: the declared order of the alternatives is a tie-break that is never
\* exercised: at most one of the five comparison variants and at most one
\* of the three operation variants accepts an input, so Compare and
\* Operation give the same result for every order of their alternatives.
C17_OrderNeverExercised ==
    /\ pc = "CompareDone" =>
          OrderIsNoTieBreak(Outcomes(AlternativeNames("Compare")), Compare(input, 0))
    /\ pc = "OperationDone" =>
          OrderIsNoTieBreak(Outcomes(AlternativeNames("Operation")), Operation(input, 0))

\* C17 witness: a line was accepted by the alternative that is declared
\* last, and by no other
C17_Witness ==
    /\ pc = "CompareDone"
    /\ result = "Ok"
    /\ Accepting(AlternativeNames("Compare")) = {5}
    /\ item.variant = "Lease"

-----------------------------------------------------------------------------
(* Termination of the document parse (specification SpecFair) *)

\* TxnData::accept runs to its end: a step that can be taken is taken.
\* This is weak fairness of Next; a step of Next can be taken exactly when
\* the parse has not ended, which stands here for its enabling condition.
SpecFair == Spec /\ ([]<>Ended \/ []<><<Next>>_vars)

\* The cursors of a separated-list loop over a buffer: the cursor at the
\* start of each iteration, and the cursor the loop ends with.
RECURSIVE LoopCursors(_, _, _)

\* after the item of an iteration was tried from p
CursorsAfterElement(kind, data, p, element) ==
    IF ~element.ok THEN <<p>>
    ELSE IF Remaining(data, element.pos) = <<>> \/ ~LineFeed(data, element.pos).ok
    THEN <<p, element.pos>>
    ELSE <<p>> \o LoopCursors(kind, data, LineFeed(data, element.pos).pos)

LoopCursors(kind, data, p) == CursorsAfterElement(kind, data, p, Element(kind, data, p))

\* the cursors strictly increase and stay within a buffer of len bytes
StrictlyAdvancing(cursors, len) ==
    /\ \A i \in 1..(Len(cursors) - 1) : cursors[i] < cursors[i + 1]
    /\ \A i \in 1..Len(cursors) : 0 <= cursors[i] /\ cursors[i] <= len

\* the input holds a blank line at or after from
BlankLineFrom(from) ==
    from <= Len(input) /\ FirstBlankLine(input, from) + 2 <= Len(input)

\* the regions of the input that are given to a separated list: the bytes
\* before the first blank line, those before the second, and the rest
ListRegions ==
    (IF BlankLineFrom(LeadingWhitespace(input))
     THEN { <<"Compare", Slice(input, LeadingWhitespace(input),
                               FirstBlankLine(input, LeadingWhitespace(input)))>> }
     ELSE {})
    \cup
    (IF BlankLineFrom(LeadingWhitespace(input)) /\ BlankLineFrom(AfterCompareSection)
     THEN { <<"Operation", Slice(input, AfterCompareSection,
                                 FirstBlankLine(input, AfterCompareSection))>>,
            <<"Operation", Remaining(input, AfterSuccessSection)>> }
     ELSE {})

\* the cursors of the parse stay within their buffers, and every iteration
\* of a separated-list loop advances
CursorsBounded ==
    /\ 0 <= pos /\ pos <= Len(input)
    /\ \A r \in ListRegions : StrictlyAdvancing(LoopCursors(r[1], r[2], 0), Len(r[2]))

\* C18: the parse of a finite input terminates, in Done with a document or
\* with UnexpectedToken; every iteration of a separated-list loop strictly
\* advances its cursor, no cursor exceeds the length of its buffer, and the
\* committed position of the main cursor never moves backwards.
C18_Terminates ==
    /\ <>Ended
    /\ [](Ended => (pc = "Done" /\ result = "Ok") \/ (pc = "Failed" /\ result = "UnexpectedToken"))
    /\ []CursorsBounded
    /\ [][pos' >= pos]_vars

\* C18 witness: the parse ended in Done after a separated-list loop of two
\* iterations
C18_Witness ==
    /\ pc = "Done"
    /\ Len(failure) = 2
    /\ pos <= Len(input)
    /\ \E r \in ListRegions : Len(LoopCursors(r[1], r[2], 0)) = 3


=============================================================================
